---- MODULE Spec2Model ----
(***************************************************************************)
(* The range decoder of src/entdec.c (od_ec_dec) as a state machine.       *)
(*                                                                         *)
(* The decoder context is the record `this`; every exported function is an *)
(* operator from a context (and arguments) to a result record holding the  *)
(* new context, the returned value and what the call read from the buffer. *)
(* One action per exported function applies the operator to `this`.        *)
(*                                                                         *)
(* Number representation.  `unsigned`, `int` and ogg_uint32_t are 32 bits  *)
(* wide.  od_ec_window is a 32-bit unsigned word; since the integers of   *)
(* TLC stop at 2^31-1 a window is kept as its two 16-bit halves            *)
(* [hi, lo] and every window operation (<<, >>, |, -, >=) is computed on   *)
(* the halves modulo 2^32.                                                 *)
(***************************************************************************)
EXTENDS Integers, Sequences, FiniteSets, TLC

(***************************************************************************)
(* Bounds of the model.                                                    *)
(***************************************************************************)
\* Longest input buffer.
MaxStorage == 4
\* Number of symbols decoded after od_ec_dec_init (a decode call and its
\* update count as one).
MaxOps == 2

(***************************************************************************)
(* Program constants.                                                      *)
(***************************************************************************)
OD_EC_LOTS_OF_BITS == 16384
\* entdec.h is not part of the sources at hand: the window width (W >= 32)
\* and the range-coded width of od_ec_dec_uint (threshold 2^8) are the
\* specification's.
OD_EC_WINDOW_SIZE == 32
OD_EC_UINT_BITS == 8

(***************************************************************************)
(* Arithmetic helpers.                                                     *)
(***************************************************************************)
Pow2(n) == 2 ^ n

OD_MAXI(a, b) == IF a > b THEN a ELSE b
OD_MINI(a, b) == IF a < b THEN a ELSE b

\* x >> n on a non-negative value.
Shr(x, n) == x \div Pow2(n)

\* Number of bits of x: the position of its highest set bit plus one.
RECURSIVE OD_ILOG_NZ(_)
OD_ILOG_NZ(x) == IF x <= 0 THEN 0 ELSE 1 + OD_ILOG_NZ(x \div 2)

\* Bitwise or of two non-negative values.
RECURSIVE BitOr(_, _)
BitOr(a, b) ==
  IF a = 0 THEN b
  ELSE IF b = 0 THEN a
  ELSE (IF a % 2 = 1 \/ b % 2 = 1 THEN 1 ELSE 0) + 2 * BitOr(a \div 2, b \div 2)

(***************************************************************************)
(* od_ec_window: a 32-bit unsigned word as [hi, lo], value hi*2^16 + lo.   *)
(***************************************************************************)
WZero == [hi |-> 0, lo |-> 0]

\* (od_ec_window)b << s for a byte b and 0 <= s <= 24, modulo 2^32.
WByteShl(b, s) ==
  IF s < 16
    THEN [hi |-> (b * Pow2(s)) \div 65536, lo |-> (b * Pow2(s)) % 65536]
    ELSE [hi |-> (b * Pow2(s - 16)) % 65536, lo |-> 0]

WOr(a, b) == [hi |-> BitOr(a.hi, b.hi), lo |-> BitOr(a.lo, b.lo)]

\* w << d for 0 <= d <= 16, modulo 2^32.
WShl(w, d) ==
  [hi |-> (w.hi % Pow2(16 - d)) * Pow2(d) + (w.lo \div Pow2(16 - d)),
   lo |-> (w.lo % Pow2(16 - d)) * Pow2(d)]

\* w >> n for 0 <= n < 32.
WShr(w, n) ==
  IF n <= 16
    THEN [hi |-> w.hi \div Pow2(n),
          lo |-> (w.lo \div Pow2(n)) + (w.hi % Pow2(n)) * Pow2(16 - n)]
    ELSE [hi |-> 0, lo |-> w.hi \div Pow2(n - 16)]

\* (ogg_uint32_t)w & ((1 << n) - 1) for 0 <= n <= 25.
WLowBits(w, n) ==
  IF n <= 16 THEN w.lo % Pow2(n)
  ELSE (w.hi % Pow2(n - 16)) * 65536 + w.lo

\* w - ((od_ec_window)u << OD_EC_WINDOW_SIZE-16), modulo 2^32.
WSubTop(w, u) == [hi |-> (w.hi - u) % 65536, lo |-> w.lo]

\* w >= ((od_ec_window)v << OD_EC_WINDOW_SIZE-16) for 0 <= v < 2^16.
WGeTop(w, v) == w.hi >= v

\* (unsigned)(w >> OD_EC_WINDOW_SIZE-16): the upper half.
WTop16(w) == w.hi

\* (int)(w >> OD_EC_WINDOW_SIZE-15)
WTop15(w) == w.hi \div 2

(***************************************************************************)
(* Results of a call: the new context, the value returned, the set of      *)
(* buffer indices read, and whether a refill found its cursor at the end   *)
(* of the buffer (front cursor: endf, tail cursor: endb).                  *)
(***************************************************************************)
Res(t, r, rd, ef, eb) ==
  [this |-> t, ret |-> r, rd |-> rd, endf |-> ef, endb |-> eb]

\* buf[i]; the buffer is the sequence this.buf, C index i is element i+1.
\* No call of the decoder indexes outside [0, storage): the refill loops
\* test their cursor first.
BufAt(this, i) == IF i >= 0 /\ i < Len(this.buf) THEN this.buf[i + 1] ELSE 0

(***************************************************************************)
(* od_ec_dec_normalize                                                     *)
(***************************************************************************)
\* The refill loop testing offs>storage: it fetches buf[storage].
RECURSIVE NormalizeRefill_Gt(_, _, _, _, _, _)
NormalizeRefill_Gt(this, dif, c, s, offs, rd) ==
  IF s < 0
    THEN [dif |-> dif, c |-> c, offs |-> offs, rd |-> rd, endf |-> FALSE]
  ELSE IF offs > this.storage
    THEN [dif |-> dif, c |-> OD_EC_LOTS_OF_BITS, offs |-> offs, rd |-> rd,
          endf |-> TRUE]
  ELSE NormalizeRefill_Gt(this, WOr(dif, WByteShl(BufAt(this, offs), s)),
                          c + 8, s - 8, offs + 1, rd \cup {offs})

\* The refill loop: for(s=...;s>=0;){ if(offs>=storage){c=LOTS;break;} ... }
RECURSIVE NormalizeRefill(_, _, _, _, _, _)
NormalizeRefill(this, dif, c, s, offs, rd) ==
  IF s < 0
    THEN [dif |-> dif, c |-> c, offs |-> offs, rd |-> rd, endf |-> FALSE]
  ELSE IF offs >= this.storage
    THEN [dif |-> dif, c |-> OD_EC_LOTS_OF_BITS, offs |-> offs, rd |-> rd,
          endf |-> TRUE]
  ELSE NormalizeRefill(this, WOr(dif, WByteShl(BufAt(this, offs), s)),
                       c + 8, s - 8, offs + 1, rd \cup {offs})

\* od_ec_dec_normalize storing the range without shifting it back up.
od_ec_dec_normalize_NoShift(this, dif0, rng0, ret) ==
  LET d    == 16 - OD_ILOG_NZ(rng0)
      c    == this.cnt - d
      dif  == WShl(dif0, d)
      fill == IF c < 0
                THEN NormalizeRefill(this, dif, c,
                                     OD_EC_WINDOW_SIZE - 9 - (c + 15),
                                     this.offs, {})
                ELSE [dif |-> dif, c |-> c, offs |-> this.offs, rd |-> {},
                      endf |-> FALSE]
  IN  Res([this EXCEPT !.offs = fill.offs,
                       !.nbits_total = this.nbits_total + d,
                       !.val = fill.dif,
                       !.rng = rng0,
                       !.cnt = fill.c],
          ret, fill.rd, fill.endf, FALSE)

od_ec_dec_normalize(this, dif0, rng0, ret) ==
  LET d    == 16 - OD_ILOG_NZ(rng0)
      c    == this.cnt - d
      dif  == WShl(dif0, d)
      fill == IF c < 0
                THEN NormalizeRefill(this, dif, c,
                                     OD_EC_WINDOW_SIZE - 9 - (c + 15),
                                     this.offs, {})
                ELSE [dif |-> dif, c |-> c, offs |-> this.offs, rd |-> {},
                      endf |-> FALSE]
  IN  Res([this EXCEPT !.offs = fill.offs,
                       !.nbits_total = this.nbits_total + d,
                       !.val = fill.dif,
                       !.rng = rng0 * Pow2(d),
                       !.cnt = fill.c],
          ret, fill.rd, fill.endf, FALSE)

(***************************************************************************)
(* od_ec_dec_init                                                          *)
(***************************************************************************)
\* The fill loop of od_ec_dec_init.
RECURSIVE InitFill(_, _, _, _, _, _)
InitFill(buf, dif, c, s, offs, rd) ==
  IF s < 0
    THEN [dif |-> dif, c |-> c, offs |-> offs, rd |-> rd, endf |-> FALSE]
  ELSE IF offs >= Len(buf)
    THEN [dif |-> dif, c |-> OD_EC_LOTS_OF_BITS, offs |-> offs, rd |-> rd,
          endf |-> TRUE]
  ELSE InitFill(buf, WOr(dif, WByteShl(buf[offs + 1], s)),
                c + 8, s - 8, offs + 1, rd \cup {offs})

\* ext is not written by od_ec_dec_init; no call reads it before a decode
\* call has written it, and it is kept at 0 until then.
od_ec_dec_init(buf) ==
  LET fill == InitFill(buf, WZero, -15, OD_EC_WINDOW_SIZE - 9, 0, {})
  IN  Res([buf |-> buf, storage |-> Len(buf), end_offs |-> 0,
           end_window |-> WZero, nend_bits |-> 0, nbits_total |-> 1,
           offs |-> fill.offs, rng |-> 32768, cnt |-> fill.c,
           val |-> fill.dif, error |-> 0, ext |-> 0],
          0, fill.rd, fill.endf, FALSE)

(***************************************************************************)
(* od_ec_dec_bit_logp                                                      *)
(***************************************************************************)
od_ec_dec_bit_logp(this, logp) ==
  LET dif == this.val
      r   == this.rng
      v0  == 32768 - Pow2(15 - logp)
      v   == v0 + OD_MINI(v0, r - 32768)
      ret == IF WGeTop(dif, v) THEN 1 ELSE 0
  IN  od_ec_dec_normalize(this,
                          IF ret = 1 THEN WSubTop(dif, v) ELSE dif,
                          IF ret = 1 THEN r - v ELSE v,
                          ret)

(***************************************************************************)
(* od_ec_dec_bits                                                          *)
(***************************************************************************)
\* The tail refill indexing buf[storage-end_offs++]: one byte too far back.
RECURSIVE BitsRefill_PostInc(_, _, _, _, _)
BitsRefill_PostInc(this, window, available, end_offs, rd) ==
  IF end_offs >= this.storage
    THEN [window |-> window, available |-> OD_EC_LOTS_OF_BITS,
          end_offs |-> end_offs, rd |-> rd, endb |-> TRUE]
  ELSE LET i  == this.storage - end_offs
           w  == WOr(window, WByteShl(BufAt(this, i), available))
           a  == available + 8
       IN  IF a <= OD_EC_WINDOW_SIZE - 8
             THEN BitsRefill_PostInc(this, w, a, end_offs + 1, rd \cup {i})
             ELSE [window |-> w, available |-> a, end_offs |-> end_offs + 1,
                   rd |-> rd \cup {i}, endb |-> FALSE]

\* The do ... while(available<=OD_EC_WINDOW_SIZE-8) refill from the tail.
RECURSIVE BitsRefill(_, _, _, _, _)
BitsRefill(this, window, available, end_offs, rd) ==
  IF end_offs >= this.storage
    THEN [window |-> window, available |-> OD_EC_LOTS_OF_BITS,
          end_offs |-> end_offs, rd |-> rd, endb |-> TRUE]
  ELSE LET i  == this.storage - (end_offs + 1)
           w  == WOr(window, WByteShl(BufAt(this, i), available))
           a  == available + 8
       IN  IF a <= OD_EC_WINDOW_SIZE - 8
             THEN BitsRefill(this, w, a, end_offs + 1, rd \cup {i})
             ELSE [window |-> w, available |-> a, end_offs |-> end_offs + 1,
                   rd |-> rd \cup {i}, endb |-> FALSE]

\* od_ec_dec_bits storing its advanced cursor in offs instead of end_offs.
od_ec_dec_bits_FrontCursor(this, bits) ==
  LET fill == IF this.nend_bits >= 0 /\ this.nend_bits < bits
                THEN BitsRefill(this, this.end_window, this.nend_bits,
                                this.end_offs, {})
                ELSE [window |-> this.end_window,
                      available |-> this.nend_bits,
                      end_offs |-> this.end_offs, rd |-> {}, endb |-> FALSE]
  IN  Res([this EXCEPT !.offs = fill.end_offs,
                       !.end_window = WShr(fill.window, bits),
                       !.nend_bits = fill.available - bits,
                       !.nbits_total = this.nbits_total + bits],
          WLowBits(fill.window, bits), fill.rd, FALSE, fill.endb)

od_ec_dec_bits(this, bits) ==
  LET fill == IF this.nend_bits >= 0 /\ this.nend_bits < bits
                THEN BitsRefill(this, this.end_window, this.nend_bits,
                                this.end_offs, {})
                ELSE [window |-> this.end_window,
                      available |-> this.nend_bits,
                      end_offs |-> this.end_offs, rd |-> {}, endb |-> FALSE]
  IN  Res([this EXCEPT !.end_offs = fill.end_offs,
                       !.end_window = WShr(fill.window, bits),
                       !.nend_bits = fill.available - bits,
                       !.nbits_total = this.nbits_total + bits],
          WLowBits(fill.window, bits), fill.rd, FALSE, fill.endb)

(***************************************************************************)
(* The decode variants.  Each sets ext and leaves the rest of the context. *)
(***************************************************************************)
\* od_ec_decode_normalized comparing against dif instead of dif>>1.
od_ec_decode_normalized_NoHalf(this, ft0) ==
  LET dif == WTop16(this.val)
      r   == this.rng
      s   == IF r >= ft0 * 2 THEN 1 ELSE 0
      ft  == ft0 * Pow2(s)
      d   == r - ft
  IN  Res([this EXCEPT !.ext = s],
          Shr(OD_MAXI(dif, dif - d), s), {}, FALSE, FALSE)

od_ec_decode_normalized(this, ft0) ==
  LET dif == WTop16(this.val)
      r   == this.rng
      s   == IF r >= ft0 * 2 THEN 1 ELSE 0
      ft  == ft0 * Pow2(s)
      d   == r - ft
  IN  Res([this EXCEPT !.ext = s],
          Shr(OD_MAXI(dif \div 2, dif - d), s), {}, FALSE, FALSE)

od_ec_decode(this, ft0) ==
  LET dif == WTop16(this.val)
      r   == this.rng
      s0  == 15 - OD_ILOG_NZ(ft0 - 1)
      ft1 == ft0 * Pow2(s0)
      up  == r >= ft1 * 2
      ft  == IF up THEN ft1 * 2 ELSE ft1
      s   == IF up THEN s0 + 1 ELSE s0
      d   == r - ft
  IN  Res([this EXCEPT !.ext = s],
          Shr(OD_MAXI(dif \div 2, dif - d), s), {}, FALSE, FALSE)

od_ec_decode_bin_normalized(this) ==
  LET dif == WTop16(this.val)
      r   == this.rng
      d   == r - 32768
  IN  Res([this EXCEPT !.ext = 0],
          OD_MAXI(dif \div 2, dif - d), {}, FALSE, FALSE)

od_ec_decode_bin(this, ftb) ==
  LET dif == WTop16(this.val)
      r   == this.rng
      d   == r - 32768
      s   == 15 - ftb
  IN  Res([this EXCEPT !.ext = s],
          Shr(OD_MAXI(dif \div 2, dif - d), s), {}, FALSE, FALSE)

(***************************************************************************)
(* od_ec_dec_update                                                        *)
(***************************************************************************)
\* od_ec_dec_update without the scaling of _ft by ext.
od_ec_dec_update_UnscaledFt(this, fl0, fh0, ft0) ==
  LET dif == this.val
      r   == this.rng
      s   == this.ext
      fl  == fl0 * Pow2(s)
      fh  == fh0 * Pow2(s)
      d   == r - ft0
      u   == fl + OD_MINI(fl, d)
      v   == fh + OD_MINI(fh, d)
  IN  od_ec_dec_normalize(this, WSubTop(dif, u), v - u, 0)

od_ec_dec_update(this, fl0, fh0, ft0) ==
  LET dif == this.val
      r   == this.rng
      s   == this.ext
      fl  == fl0 * Pow2(s)
      fh  == fh0 * Pow2(s)
      ft  == ft0 * Pow2(s)
      d   == r - ft
      u   == fl + OD_MINI(fl, d)
      v   == fh + OD_MINI(fh, d)
  IN  od_ec_dec_normalize(this, WSubTop(dif, u), v - u, 0)

(***************************************************************************)
(* The inverse-CDF decoders.  A table is a sequence; C index i is element  *)
(* i+1.                                                                    *)
(***************************************************************************)
\* _icdf[i].  A well-formed table ends in 0 and q is at least 1, so the
\* walk stops inside the table; an index past the table is reported as an
\* overrun by IcdfWalk and not read.
IcdfAt(icdf, i) == IF i >= 0 /\ i < Len(icdf) THEN icdf[i + 1] ELSE 0

\* The table walk continuing only while _icdf[ret]>q.
RECURSIVE IcdfWalk_Gt(_, _, _, _)
IcdfWalk_Gt(icdf, q, ret, fl) ==
  IF ret >= Len(icdf) THEN [ret |-> ret, fl |-> fl, over |-> TRUE]
  ELSE IF icdf[ret + 1] > q THEN IcdfWalk_Gt(icdf, q, ret + 1, icdf[ret + 1])
  ELSE [ret |-> ret, fl |-> fl, over |-> FALSE]

\* for(ret=0;_icdf[ret]>=q;ret++)fl=_icdf[ret];
RECURSIVE IcdfWalk(_, _, _, _)
IcdfWalk(icdf, q, ret, fl) ==
  IF ret >= Len(icdf) THEN [ret |-> ret, fl |-> fl, over |-> TRUE]
  ELSE IF icdf[ret + 1] >= q THEN IcdfWalk(icdf, q, ret + 1, icdf[ret + 1])
  ELSE [ret |-> ret, fl |-> fl, over |-> FALSE]

\* The value q the table walk compares against, explicit-ft form.
IcdfFtQ(this, ft0) ==
  LET r   == this.rng
      s0  == 15 - OD_ILOG_NZ(ft0 - 1)
      ft1 == ft0 * Pow2(s0)
      up  == r >= ft1 * 2
      ft  == IF up THEN ft1 * 2 ELSE ft1
      s   == IF up THEN s0 + 1 ELSE s0
      d   == r - ft
  IN  [s |-> s, d |-> d,
       q |-> ft0 - Shr(OD_MAXI(WTop15(this.val), WTop16(this.val) - d), s)]

od_ec_dec_icdf_ft(this, icdf, ft0) ==
  LET dif == this.val
      k   == IcdfFtQ(this, ft0)
      w   == IcdfWalk(icdf, k.q, 0, ft0)
      fl  == (ft0 - w.fl) * Pow2(k.s)
      fh  == (ft0 - IcdfAt(icdf, w.ret)) * Pow2(k.s)
      u   == fl + OD_MINI(fl, k.d)
      v   == fh + OD_MINI(fh, k.d)
  IN  od_ec_dec_normalize(this, WSubTop(dif, u), v - u, w.ret)

od_ec_dec_icdf16_ft(this, icdf, ft0) ==
  LET dif == this.val
      k   == IcdfFtQ(this, ft0)
      w   == IcdfWalk(icdf, k.q, 0, ft0)
      fl  == (ft0 - w.fl) * Pow2(k.s)
      fh  == (ft0 - IcdfAt(icdf, w.ret)) * Pow2(k.s)
      u   == fl + OD_MINI(fl, k.d)
      v   == fh + OD_MINI(fh, k.d)
  IN  od_ec_dec_normalize(this, WSubTop(dif, u), v - u, w.ret)

\* The value q the table walk compares against, implicit ft = 1 << ftb.
IcdfBinQ(this, ftb) ==
  LET r == this.rng
      s == 15 - ftb
      d == r - 32768
  IN  [s |-> s, d |-> d,
       q |-> Pow2(ftb)
             - Shr(OD_MAXI(WTop15(this.val), WTop16(this.val) - d), s)]

od_ec_dec_icdf(this, icdf, ftb) ==
  LET dif == this.val
      k   == IcdfBinQ(this, ftb)
      w   == IcdfWalk(icdf, k.q, 0, Pow2(ftb))
      fl  == 32768 - w.fl * Pow2(k.s)
      fh  == 32768 - IcdfAt(icdf, w.ret) * Pow2(k.s)
      u   == fl + OD_MINI(fl, k.d)
      v   == fh + OD_MINI(fh, k.d)
  IN  od_ec_dec_normalize(this, WSubTop(dif, u), v - u, w.ret)

od_ec_dec_icdf16(this, icdf, ftb) ==
  LET dif == this.val
      k   == IcdfBinQ(this, ftb)
      w   == IcdfWalk(icdf, k.q, 0, Pow2(ftb))
      fl  == 32768 - w.fl * Pow2(k.s)
      fh  == 32768 - IcdfAt(icdf, w.ret) * Pow2(k.s)
      u   == fl + OD_MINI(fl, k.d)
      v   == fh + OD_MINI(fh, k.d)
  IN  od_ec_dec_normalize(this, WSubTop(dif, u), v - u, w.ret)

(***************************************************************************)
(* od_ec_dec_uint                                                          *)
(***************************************************************************)
\* ftb=OD_ILOG_NZ(_ft)-OD_EC_UINT_BITS after _ft--.
UintFtb(ft0) == OD_ILOG_NZ(ft0 - 1) - OD_EC_UINT_BITS

\* The total passed to od_ec_decode_normalized and od_ec_dec_update:
\* ft=(unsigned)(_ft>>ftb)+1<<15-OD_EC_UINT_BITS after _ft--.
UintReducedFt(ft0) ==
  (Shr(ft0 - 1, UintFtb(ft0)) + 1) * Pow2(15 - OD_EC_UINT_BITS)

\* The combined value t of the large branch, before the range test.
UintCombine(fs, ftb, raw) ==
  BitOr(Shr(fs, 15 - OD_EC_UINT_BITS) * Pow2(ftb), raw)

\* The large branch up to the range test: the range-coded high part, the
\* raw low bits, and their combination t.
UintSplit(this, ft0) ==
  LET ftb  == UintFtb(ft0)
      ft   == UintReducedFt(ft0)
      step == Pow2(15 - OD_EC_UINT_BITS)
      dn   == od_ec_decode_normalized(this, ft)
      fs   == dn.ret - (dn.ret % step)
      up   == od_ec_dec_update(dn.this, fs, fs + step, ft)
      bt   == od_ec_dec_bits(up.this, ftb)
  IN  [t |-> UintCombine(fs, ftb, bt.ret), up |-> up, bt |-> bt]

\* od_ec_dec_uint returning the combined value unclamped when it is out of
\* range.
od_ec_dec_uint_NoClamp(this, ft0) ==
  IF ft0 > Pow2(OD_EC_UINT_BITS)
    THEN LET ftm == ft0 - 1
             k   == UintSplit(this, ft0)
         IN  IF k.t <= ftm
               THEN Res(k.bt.this, k.t, k.up.rd \cup k.bt.rd, k.up.endf,
                        k.bt.endb)
               ELSE Res([k.bt.this EXCEPT !.error = 1], k.t,
                        k.up.rd \cup k.bt.rd, k.up.endf, k.bt.endb)
    ELSE LET dc == od_ec_decode(this, ft0)
             fs == dc.ret
             up == od_ec_dec_update(dc.this, fs, fs + 1, ft0)
         IN  Res(up.this, fs, up.rd, up.endf, FALSE)

\* od_ec_dec_uint storing the outcome of the range test in the error flag:
\* an in-range result clears it.
od_ec_dec_uint_StoresTest(this, ft0) ==
  IF ft0 > Pow2(OD_EC_UINT_BITS)
    THEN LET ftm == ft0 - 1
             k   == UintSplit(this, ft0)
         IN  IF k.t <= ftm
               THEN Res([k.bt.this EXCEPT !.error = 0], k.t,
                        k.up.rd \cup k.bt.rd, k.up.endf, k.bt.endb)
               ELSE Res([k.bt.this EXCEPT !.error = 1], ftm,
                        k.up.rd \cup k.bt.rd, k.up.endf, k.bt.endb)
    ELSE LET dc == od_ec_decode(this, ft0)
             fs == dc.ret
             up == od_ec_dec_update(dc.this, fs, fs + 1, ft0)
         IN  Res(up.this, fs, up.rd, up.endf, FALSE)

od_ec_dec_uint(this, ft0) ==
  IF ft0 > Pow2(OD_EC_UINT_BITS)
    THEN LET ftm == ft0 - 1
             k   == UintSplit(this, ft0)
         IN  IF k.t <= ftm
               THEN Res(k.bt.this, k.t, k.up.rd \cup k.bt.rd, k.up.endf,
                        k.bt.endb)
               ELSE Res([k.bt.this EXCEPT !.error = 1], ftm,
                        k.up.rd \cup k.bt.rd, k.up.endf, k.bt.endb)
    ELSE LET dc == od_ec_decode(this, ft0)
             fs == dc.ret
             up == od_ec_dec_update(dc.this, fs, fs + 1, ft0)
         IN  Res(up.this, fs, up.rd, up.endf, FALSE)

(***************************************************************************)
(* The state machine: a caller driving one decoder context.                *)
(***************************************************************************)
VARIABLES
  this,   \* the od_ec_dec context
  op,     \* the last call: its name, arguments, result and buffer reads
  pend,   \* the decode call awaiting its od_ec_dec_update (ft = 0: none)
  nops,   \* symbols decoded since od_ec_dec_init
  nraw    \* raw bits taken from the tail since od_ec_dec_init

vars == <<this, op, pend, nops, nraw>>

\* Inputs of the calls.
Bytes == {165, 255}
Buffers == UNION {[1..n -> Bytes] : n \in 0..MaxStorage}
NormFts == {20000}
AnyFts == {3}
BinFtbs == {3}
Logps == {1, 15}
Icdf8Ft == {[t |-> <<9, 5, 5, 1, 0>>, ft |-> 10]}
Icdf16Ft == {[t |-> <<30000, 1000, 0>>, ft |-> 32767]}
Icdf8Bin == {[t |-> <<7, 6, 5, 4, 3, 2, 1, 0>>, ftb |-> 3]}
Icdf16Bin == {[t |-> <<32768, 16384, 1, 0>>, ftb |-> 15]}
UintFts == {1, 257, 512}
BitCounts == {4, 8, 25}

NoPend == [ft |-> 0, v |-> 0]

\* The record of a call.  arg: its scalar argument; ft: the total handed to
\* the range decoder; q: the comparison value of a table walk, or the
\* combined value t of od_ec_dec_uint's large branch; tbl: the table of a
\* table walk, or the interval of an update; rawn: the width of the raw
\* field the call extracted (-1: none).
OpRec(name, arg, r, ft, q, tbl, rawn) ==
  [name |-> name, arg |-> arg, ret |-> r.ret, ft |-> ft, q |-> q,
   tbl |-> tbl, rd |-> r.rd, endf |-> r.endf, endb |-> r.endb,
   rawn |-> rawn]

\* The intervals [fl, fh) a caller's model may hand to od_ec_dec_update
\* after the decode call returned v for the total ft: each contains v.
UpdateIntervals(ft, v) ==
  {<<v, v + 1>>, <<0, ft>>,
   IF v < ft \div 2 THEN <<0, ft \div 2>> ELSE <<ft \div 2, ft>>}

Init ==
  \E b \in Buffers :
    LET r == od_ec_dec_init(b)
    IN  /\ this = r.this
        /\ op = OpRec("init", Len(b), r, 0, 0, <<>>, -1)
        /\ pend = NoPend
        /\ nops = 0
        /\ nraw = 0

\* The caller starts over on its buffer.  (A start on another buffer leads
\* to the initial state of that buffer, which Init already covers.)
CallInit ==
  LET r == od_ec_dec_init(this.buf)
  IN  /\ this' = r.this
      /\ op' = OpRec("init", Len(this.buf), r, 0, 0, <<>>, -1)
      /\ pend' = NoPend
      /\ nops' = 0
      /\ nraw' = 0

Ready == nops < MaxOps /\ pend.ft = 0

\* A decode call: only ext changes, and an update is owed.
Decoded(name, arg, r, ft) ==
  /\ this' = r.this
  /\ op' = OpRec(name, arg, r, ft, 0, <<>>, -1)
  /\ pend' = [ft |-> ft, v |-> r.ret]
  /\ nops' = nops
  /\ nraw' = nraw

\* A self-contained call.
Called(name, arg, r, ft, q, tbl, rawn) ==
  /\ this' = r.this
  /\ op' = OpRec(name, arg, r, ft, q, tbl, rawn)
  /\ pend' = NoPend
  /\ nops' = nops + 1
  /\ nraw' = nraw + (IF rawn > 0 THEN rawn ELSE 0)

CallDecodeNormalized ==
  /\ Ready
  /\ \E ft \in NormFts :
       Decoded("decode_normalized", ft, od_ec_decode_normalized(this, ft), ft)

CallDecode ==
  /\ Ready
  /\ \E ft \in AnyFts : Decoded("decode", ft, od_ec_decode(this, ft), ft)

CallDecodeBinNormalized ==
  /\ Ready
  /\ Decoded("decode_bin_normalized", 0, od_ec_decode_bin_normalized(this),
             32768)

CallDecodeBin ==
  /\ Ready
  /\ \E ftb \in BinFtbs :
       Decoded("decode_bin", ftb, od_ec_decode_bin(this, ftb), Pow2(ftb))

CallUpdate ==
  /\ pend.ft > 0
  /\ \E i \in UpdateIntervals(pend.ft, pend.v) :
       Called("update", i[1], od_ec_dec_update(this, i[1], i[2], pend.ft),
              pend.ft, 0, <<i[1], i[2]>>, -1)

CallBitLogp ==
  /\ Ready
  /\ \E logp \in Logps :
       Called("bit_logp", logp, od_ec_dec_bit_logp(this, logp), 0, 0, <<>>,
              -1)

CallIcdfFt ==
  /\ Ready
  /\ \E m \in Icdf8Ft :
       Called("icdf_ft", m.ft, od_ec_dec_icdf_ft(this, m.t, m.ft), m.ft,
              IcdfFtQ(this, m.ft).q, m.t, -1)

CallIcdf16Ft ==
  /\ Ready
  /\ \E m \in Icdf16Ft :
       Called("icdf16_ft", m.ft, od_ec_dec_icdf16_ft(this, m.t, m.ft), m.ft,
              IcdfFtQ(this, m.ft).q, m.t, -1)

CallIcdf ==
  /\ Ready
  /\ \E m \in Icdf8Bin :
       Called("icdf", m.ftb, od_ec_dec_icdf(this, m.t, m.ftb), Pow2(m.ftb),
              IcdfBinQ(this, m.ftb).q, m.t, -1)

CallIcdf16 ==
  /\ Ready
  /\ \E m \in Icdf16Bin :
       Called("icdf16", m.ftb, od_ec_dec_icdf16(this, m.t, m.ftb),
              Pow2(m.ftb), IcdfBinQ(this, m.ftb).q, m.t, -1)

CallUint ==
  /\ Ready
  /\ \E ft \in UintFts :
       Called("uint", ft, od_ec_dec_uint(this, ft),
              IF ft > Pow2(OD_EC_UINT_BITS) THEN UintReducedFt(ft) ELSE ft,
              IF ft > Pow2(OD_EC_UINT_BITS) THEN UintSplit(this, ft).t ELSE 0,
              <<>>,
              IF ft > Pow2(OD_EC_UINT_BITS) THEN UintFtb(ft) ELSE -1)

CallBits ==
  /\ Ready
  /\ \E n \in BitCounts :
       Called("bits", n, od_ec_dec_bits(this, n), 0, 0, <<>>, n)

Next ==
  \/ CallInit
  \/ CallDecodeNormalized
  \/ CallDecode
  \/ CallDecodeBinNormalized
  \/ CallDecodeBin
  \/ CallUpdate
  \/ CallBitLogp
  \/ CallIcdfFt
  \/ CallIcdf16Ft
  \/ CallIcdf
  \/ CallIcdf16
  \/ CallUint
  \/ CallBits

Spec == Init /\ [][Next]_vars

\* The window stays below the range, val < rng << 16, and the total an
\* update is owed fits the range: the unsigned differences r - ft of the
\* decode and update calls do not wrap.
ValBelowRng ==
  /\ this.val.hi < this.rng
  /\ pend.ft > 0 => pend.ft * Pow2(this.ext) <= this.rng

(***************************************************************************)
(* Properties.                                                             *)
(***************************************************************************)
RangeCodedOps ==
  {"update", "bit_logp", "icdf_ft", "icdf16_ft", "icdf", "icdf16"}
DecodeOps ==
  {"decode_normalized", "decode", "decode_bin_normalized", "decode_bin"}
IcdfOps == {"icdf_ft", "icdf16_ft", "icdf", "icdf16"}

\* Probabilities handed to od_ec_dec_bit_logp by the property below.
C1Logps == {0, 7, 14}

\* Intervals with 0 <= fl < fh <= ft handed to od_ec_dec_update by the
\* property below, whether or not they contain the decoded value.
C1Intervals(ft) ==
  {i \in {<<0, 1>>, <<ft - 1, ft>>, <<0, ft>>, <<ft \div 2, ft \div 2 + 1>>,
          <<1, ft>>} : i[1] >= 0 /\ i[1] < i[2]}

\* C1: the stored range satisfies 0x8000 <= rng < 0x10000 after
\* od_ec_dec_init and after every call, in particular after every call that
\* went through od_ec_dec_normalize; od_ec_dec_bit_logp leaves it so for
\* every logp <= 15, and od_ec_dec_update for every 0 <= fl < fh <= ft.
C1_RangeInvariant ==
  /\ this.rng >= 32768 /\ this.rng < 65536
  /\ pend.ft = 0 =>
       \A logp \in C1Logps :
         LET r == od_ec_dec_bit_logp(this, logp).this.rng
         IN  r >= 32768 /\ r < 65536
  /\ pend.ft > 0 =>
       \A i \in C1Intervals(pend.ft) :
         LET r == od_ec_dec_update(this, i[1], i[2], pend.ft).this.rng
         IN  r >= 32768 /\ r < 65536

\* An update that narrowed the range, shifted it back up and refilled the
\* window from the buffer.
C1_Witness ==
  /\ op.name = "update"
  /\ op.tbl[2] - op.tbl[1] = 1
  /\ this.nbits_total > 8
  /\ op.rd # {}

\* Totals handed to od_ec_decode_normalized by the property below.
C2Fts == {16384, 16385, 24576, 32767}

\* C2: in every reachable decoder state od_ec_decode_normalized(ft) with
\* 16384 <= ft <= 32767 returns v with 0 <= v < ft; so did the call the
\* caller just made.
C2_IntervalMembership ==
  /\ op.name = "decode_normalized" => op.ret >= 0 /\ op.ret < op.arg
  /\ \A ft \in C2Fts :
       LET v == od_ec_decode_normalized(this, ft).ret
       IN  v >= 0 /\ v < ft

\* A od_ec_decode_normalized call made after an earlier symbol was decoded,
\* returning a value in the upper half of [0, ft).
C2_Witness ==
  /\ op.name = "decode_normalized"
  /\ nops >= 1
  /\ this.rng > 32768
  /\ 2 * op.ret >= op.arg

\* Further well-formed tables (non-increasing, last entry 0, no entry above
\* the total) walked from every reachable state by the property below.
C3FtTables == {[t |-> <<1, 0>>, ft |-> 2],
               [t |-> <<3, 3, 3, 0, 0>>, ft |-> 3],
               [t |-> <<32767, 32766, 1, 0>>, ft |-> 32767],
               [t |-> <<200, 100, 0>>, ft |-> 255],
               [t |-> <<0>>, ft |-> 20000]}
C3BinTables == {[t |-> <<0>>, ftb |-> 0],
                [t |-> <<1, 0>>, ftb |-> 1],
                [t |-> <<8, 4, 4, 0>>, ftb |-> 3],
                [t |-> <<32767, 1, 0>>, ftb |-> 15]}

\* The walk w of table t against q ended on an entry of t that is below q.
C3StopsInside(t, w, q) ==
  ~w.over /\ w.ret >= 0 /\ w.ret < Len(t) /\ t[w.ret + 1] < q

\* C3: an inverse-CDF decoder returns the first index s whose table value
\* is less than q, with 0 <= s < length(table): the walk never leaves the
\* table.
C3_TableTraversal ==
  /\ op.name \in IcdfOps =>
       /\ op.ret >= 0 /\ op.ret < Len(op.tbl)
       /\ op.tbl[op.ret + 1] < op.q
       /\ \A i \in 1..op.ret : op.tbl[i] >= op.q
  /\ \A m \in C3FtTables :
       C3StopsInside(m.t, IcdfWalk(m.t, IcdfFtQ(this, m.ft).q, 0, m.ft),
                     IcdfFtQ(this, m.ft).q)
  /\ \A m \in C3BinTables :
       C3StopsInside(m.t,
                     IcdfWalk(m.t, IcdfBinQ(this, m.ftb).q, 0, Pow2(m.ftb)),
                     IcdfBinQ(this, m.ftb).q)

\* A table walk that passed two equal entries and stopped on a later,
\* non-terminal entry.
C3_Witness ==
  /\ op.name = "icdf_ft"
  /\ op.ret = 3
  /\ op.tbl[2] = op.tbl[3]
  /\ op.tbl[op.ret + 1] > 0

\* Totals handed to od_ec_dec_uint by the property below.
C4Fts == {3, 1000000, 2147483647}

\* C4: od_ec_dec_uint(ft) returns a value in [0, ft-1].  In the large
\* branch (ft > 2^OD_EC_UINT_BITS) with combined value t: if t <= ft-1 it
\* returns t and leaves the error flag, otherwise it sets the error flag and
\* returns ft-1.  No other call sets the error flag.
C4_UintStep ==
  /\ op'.name = "uint" =>
       /\ op'.ret >= 0 /\ op'.ret < op'.arg
       /\ op'.arg <= Pow2(OD_EC_UINT_BITS) => this'.error = this.error
       /\ (op'.arg > Pow2(OD_EC_UINT_BITS) /\ op'.q <= op'.arg - 1) =>
            op'.ret = op'.q /\ this'.error = this.error
       /\ (op'.arg > Pow2(OD_EC_UINT_BITS) /\ op'.q > op'.arg - 1) =>
            op'.ret = op'.arg - 1 /\ this'.error = 1
  /\ op'.name \notin {"uint", "init"} => this'.error = this.error

C4_UintAnywhere ==
  pend.ft = 0 =>
    \A ft \in C4Fts :
      LET r == od_ec_dec_uint(this, ft) IN r.ret >= 0 /\ r.ret < ft

C4_UniformRange == []C4_UintAnywhere /\ [][C4_UintStep]_vars

\* A large od_ec_dec_uint whose combined value exceeded ft-1: the flag was
\* clear before (it is the first call), is set now, and ft-1 was returned.
C4_Witness ==
  /\ op.name = "uint"
  /\ op.arg > Pow2(OD_EC_UINT_BITS)
  /\ nops = 1
  /\ op.q > op.arg - 1
  /\ op.ret = op.arg - 1
  /\ this.error = 1

\* C5: once the error flag is set it stays set over every later call,
\* calls of od_ec_dec_uint with an in-range result included; only
\* od_ec_dec_init clears it.
C5_FaultStep ==
  /\ (this.error = 1 /\ op'.name # "init") => this'.error = 1
  /\ op'.name = "init" => this'.error = 0

C5_FaultSticky == [][C5_FaultStep]_vars

\* The flag set by the first call is still set after a second, large
\* od_ec_dec_uint whose combined value was in range.
C5_Witness ==
  /\ this.error = 1
  /\ nops = 2
  /\ op.name = "uint"
  /\ op.arg > Pow2(OD_EC_UINT_BITS)
  /\ op.q <= op.arg - 1

\* C6: od_ec_dec_bits leaves val, rng, cnt, offs, ext and error; the
\* range-coded calls leave end_window, nend_bits and end_offs.  From every
\* state in which a new symbol may be decoded, od_ec_dec_bit_logp(1) and
\* od_ec_dec_bits(4) return the same values in either order and both orders
\* end in the same context.
C6_Frame ==
  /\ op'.name = "bits" =>
       /\ this'.val = this.val /\ this'.rng = this.rng
       /\ this'.cnt = this.cnt /\ this'.offs = this.offs
       /\ this'.ext = this.ext /\ this'.error = this.error
  /\ op'.name \in RangeCodedOps \cup DecodeOps =>
       /\ this'.end_window = this.end_window
       /\ this'.nend_bits = this.nend_bits
       /\ this'.end_offs = this.end_offs

C6_Commute ==
  pend.ft = 0 =>
    LET a  == od_ec_dec_bit_logp(this, 1)
        b  == od_ec_dec_bits(this, 4)
        ab == od_ec_dec_bits(a.this, 4)
        ba == od_ec_dec_bit_logp(b.this, 1)
    IN  ab.ret = b.ret /\ ba.ret = a.ret /\ ab.this = ba.this

C6_Separation == []C6_Commute /\ [][C6_Frame]_vars

\* od_ec_dec_bits(4) returned a non-zero field as the second call on a
\* buffer, and the context is the one od_ec_dec_bit_logp(1) followed by
\* od_ec_dec_bits(4) leaves.
C6_Witness ==
  /\ op.name = "bits" /\ op.arg = 4 /\ op.ret > 0
  /\ nops = 2
  /\ this.storage >= 3
  /\ this = od_ec_dec_bits(
              od_ec_dec_bit_logp(od_ec_dec_init(this.buf).this, 1).this,
              4).this

\* Bit k (from 0) of the raw bit sequence of a buffer: the bits of its last
\* byte from the least significant up, then those of the byte before, ...;
\* 0 beyond the first byte.
RawBit(buf, k) ==
  IF k >= 8 * Len(buf) THEN 0
  ELSE (buf[Len(buf) - (k \div 8)] \div Pow2(k % 8)) % 2

\* The n raw bits from bit k on, as a number (bit k least significant).
RECURSIVE RawField(_, _, _)
RawField(buf, k, n) ==
  IF n = 0 THEN 0 ELSE RawBit(buf, k) + 2 * RawField(buf, k + 1, n - 1)

C7Widths == {0, 9, 24}

\* C7: od_ec_dec_bits(n) adds exactly n to nbits_total and returns the next
\* n bits of the buffer's raw bit sequence, with 0 for every bit beyond the
\* end of the buffer; on an empty buffer it returns 0, reads no byte and
\* leaves the error flag.
C7_BitsStep ==
  op'.name = "bits" =>
    /\ this'.nbits_total = this.nbits_total + op'.arg
    /\ this'.error = this.error
    /\ op'.ret = RawField(this.buf, nraw, op'.arg)
    /\ this.storage = 0 => op'.ret = 0 /\ op'.rd = {}

C7_BitsAnywhere ==
  \A n \in C7Widths :
    LET r == od_ec_dec_bits(this, n)
    IN  /\ r.this.nbits_total = this.nbits_total + n
        /\ r.ret = RawField(this.buf, nraw, n)

C7_ExhaustionPadding == []C7_BitsAnywhere /\ [][C7_BitsStep]_vars

\* od_ec_dec_bits(8) as the first call on the empty buffer.
C7_Witness ==
  /\ op.name = "bits" /\ op.arg = 8
  /\ this.storage = 0
  /\ nops = 1
  /\ op.ret = 0 /\ op.rd = {}
  /\ this.error = 0
  /\ this.nbits_total = 9

\* C8: od_ec_dec_uint(1) returns 0, reads nothing and changes no field of
\* the context but the scratch field ext.
C8_UintOneStep ==
  (op'.name = "uint" /\ op'.arg = 1) =>
    /\ op'.ret = 0
    /\ op'.rd = {}
    /\ this' = [this EXCEPT !.ext = this'.ext]

C8_UintOne == [][C8_UintOneStep]_vars

\* od_ec_dec_uint(1) called after a symbol that narrowed the range and
\* advanced both cursors' bit counts.
C8_Witness ==
  /\ op.name = "uint" /\ op.arg = 1
  /\ nops = 2
  /\ this.rng > 32768
  /\ this.nbits_total > 1

\* C9: the cursors never move back and stay within [0, storage]; a call
\* reads exactly the bytes its cursors pass, all inside the buffer; a refill
\* that finds its cursor at storage sets the bit count to
\* OD_EC_LOTS_OF_BITS (the tail count then drops by the width extracted)
\* and fetches nothing more.
C9_Bounds ==
  /\ this.offs >= 0 /\ this.offs <= this.storage
  /\ this.end_offs >= 0 /\ this.end_offs <= this.storage
  /\ \A i \in op.rd : i >= 0 /\ i < this.storage
  /\ op.endf => this.cnt = OD_EC_LOTS_OF_BITS /\ this.offs = this.storage
  /\ op.endb => /\ this.nend_bits = OD_EC_LOTS_OF_BITS - op.rawn
                /\ this.end_offs = this.storage

C9_Step ==
  op'.name # "init" =>
    /\ this'.offs >= this.offs
    /\ this'.end_offs >= this.end_offs
    /\ op'.rd = (this.offs .. this'.offs - 1)
                \cup (this.storage - this'.end_offs
                      .. this.storage - this.end_offs - 1)

C9_CursorBounds == []C9_Bounds /\ [][C9_Step]_vars

\* An od_ec_dec_uint call whose front refill read the last byte and then
\* found the end of the buffer, and whose tail refill read the buffer from
\* its last byte down to its first: both cursors stand at storage.
C9_Witness ==
  /\ op.name = "uint"
  /\ op.endf
  /\ this.storage >= 4
  /\ op.rd = 0 .. this.storage - 1
  /\ this.cnt = OD_EC_LOTS_OF_BITS
  /\ this.offs = this.storage /\ this.end_offs = this.storage

\* C10: the total od_ec_dec_uint hands to od_ec_decode_normalized and
\* od_ec_dec_update in its large branch lies in [16384, 32767].
C10_ReducedTotal ==
  (op.name = "uint" /\ op.arg > Pow2(OD_EC_UINT_BITS)) =>
    op.ft >= 16384 /\ op.ft <= 32767

====
